---- MODULE Spec2Model ----
(***************************************************************************)
(* pycp/transfer.py: the planner (TransferInfo), the single-file transfer  *)
(* (FileTransferManager) and the orchestrator (TransferManager), run on a  *)
(* small POSIX-like filesystem with directories, regular files (inodes,    *)
(* so hardlinks exist), symbolic links and one special file.               *)
(***************************************************************************)
EXTENDS Integers, Sequences, FiniteSets, TLC

VARIABLES
    fs,            \* path -> directory entry (the existing entries only)
    data,          \* inode -> [content, mode] of the regular files
    opts,          \* the keyword options given to TransferManager
    sources,       \* TransferManager.sources
    destination,   \* TransferManager.destination
    to_transfer,   \* TransferInfo.to_transfer: <<src, dest, file_size>> records
    to_remove,     \* TransferInfo.to_remove
    size,          \* TransferInfo.size
    file_index,    \* TransferManager.file_index
    errors,        \* the errors dict of TransferManager.do_transfer
    pc,            \* "new" | "transfer" | "done" | "raised"
    raised,        \* the exception that left TransferManager.do_transfer
    events,        \* the calls received by the progress indicator, in order
    handles,       \* file objects opened by a transfer and not closed
    removed,       \* the directories removed by os.rmdir, in order
    faults,        \* number of I/O faults the environment has injected
    results,       \* what each FileTransferManager.do_transfer did, in order
    plan0          \* the filesystem as it was when planning started

vars == <<fs, data, opts, sources, destination, to_transfer, to_remove, size,
          file_index, errors, pc, raised, events, handles, removed, faults,
          results, plan0>>

----------------------------------------------------------------------------
(* Bounds of the model.                                                    *)

\* I/O faults (permission, disk) the environment may inject in one run
MaxFaults == 1
\* bytes returned by one read; stands for buff_size = 100 * 1024
BuffSize == 2
\* symbolic links followed while resolving one path
MaxLinks == 2

----------------------------------------------------------------------------
(* Paths are sequences of names; <<>> is the working directory.            *)

NoPath == <<"#">>

\* every name in use, in the order of sorted() on the strings
NameOrder == <<".h", "a", "b", "d", "f", "l", "m", "out", "p", "s">>

\* str.startswith(".")
StartsWithDot(n) == n \in {".h"}

Front(p) == SubSeq(p, 1, Len(p) - 1)
Last(p) == p[Len(p)]
\* os.path.basename(os.path.normpath(p))
basename(p) == Last(p)
\* os.path.join(p, n)
join(p, n) == Append(p, n)

IsPrefix(p, q) == Len(p) <= Len(q) /\ SubSeq(q, 1, Len(p)) = p

Entry(k, i, t) == [kind |-> k, ino |-> i, target |-> t]
DirEntry == Entry("dir", 0, <<>>)
FileEntry(i) == Entry("file", i, <<>>)
LinkEntry(t) == Entry("link", 0, t)
FifoEntry == Entry("fifo", 0, <<>>)

\* Path resolution as the kernel does it: every component but the last is
\* resolved through symbolic links and must be a directory; the last one is
\* followed when `follow`.  NoPath when resolution fails; the result may
\* name an entry that does not exist.
RECURSIVE Walk(_, _, _, _, _)
Walk(f, cur, rest, follow, fuel) ==
    IF rest = <<>> THEN cur
    ELSE IF cur # <<>> /\ (cur \notin DOMAIN f \/ f[cur].kind # "dir") THEN NoPath
    ELSE LET q == Append(cur, Head(rest)) IN
         IF q \in DOMAIN f /\ f[q].kind = "link" /\ (follow \/ Len(rest) > 1)
         THEN IF fuel = 0 THEN NoPath
              ELSE Walk(f, <<>>, f[q].target \o Tail(rest), follow, fuel - 1)
         ELSE Walk(f, q, Tail(rest), follow, fuel)

Res(f, p, follow, fuel) == Walk(f, <<>>, p, follow, fuel)

Resolve(f, p) == Res(f, p, TRUE, MaxLinks)
LResolve(f, p) == Res(f, p, FALSE, MaxLinks)

KindAt(f, q) ==
    IF q = NoPath THEN "none"
    ELSE IF q = <<>> THEN "dir"
    ELSE IF q \in DOMAIN f THEN f[q].kind ELSE "none"

\* os.path.exists, isfile, isdir follow links; islink, lexists do not
exists(f, p) == KindAt(f, Resolve(f, p)) # "none"
isfile(f, p) == KindAt(f, Resolve(f, p)) = "file"
isdir(f, p) == KindAt(f, Resolve(f, p)) = "dir"
islink(f, p) == KindAt(f, LResolve(f, p)) = "link"
lexists(f, p) == KindAt(f, LResolve(f, p)) # "none"

InoOf(f, p) == f[Resolve(f, p)].ino

\* os.path.getsize: st_size of the file the path resolves to
getsize(f, dt, p) == Len(dt[InoOf(f, p)].content)

\* the bytes read through path p, <<>> when p is no regular file
Content(f, dt, p) == IF isfile(f, p) THEN dt[InoOf(f, p)].content ELSE <<>>

\* sorted(os.listdir(p))
listdir(f, p) ==
    LET r == Resolve(f, p)
        here(n) == Append(r, n) \in DOMAIN f
    IN SelectSeq(NameOrder, here)

\* os.mkdir(p), p absent and its parent a directory
mkdir(f, p) ==
    LET q == LResolve(f, p) IN
    [x \in DOMAIN f \cup {q} |-> IF x = q THEN DirEntry ELSE f[x]]

\* the entry at q taken out of f
Unlink(f, q) == [x \in DOMAIN f \ {q} |-> f[x]]

\* the inodes some path still names
Linked(f) == {f[x].ino : x \in {y \in DOMAIN f : f[y].kind = "file"}}

\* inodes without a name are freed
Collect(f, dt) == [i \in DOMAIN dt \cap Linked(f) |-> dt[i]]

----------------------------------------------------------------------------
(* samefile, check_same_file                                               *)

\* os.path.samefile compares the stat of both paths and raises OSError when
\* one of them cannot be stat'ed; samefile() turns that into False.
samefile(f, src, dest) ==
    LET a == Resolve(f, src)
        b == Resolve(f, dest)
    IN  /\ KindAt(f, a) # "none"
        /\ KindAt(f, b) # "none"
        /\ \/ a = b
           \/ KindAt(f, a) = "file" /\ KindAt(f, b) = "file" /\ f[a].ino = f[b].ino

\* check_same_file comparing the path names only
check_same_path(f, src, dest) == src = dest

\* TRUE when check_same_file raises TransferError
check_same_file(f, src, dest) == samefile(f, src, dest)

----------------------------------------------------------------------------
(* TransferInfo: the planner.  A plan state is                             *)
(* [fs, to_transfer, to_remove, size].                                     *)

WorkItem(s, d, n) == [src |-> s, dest |-> d, file_size |-> n]

\* add counting the size of every source, links included
add_links_counted(st, dt, src, dest) ==
    LET file_size == getsize(st.fs, dt, src) IN
    [st EXCEPT !.size = @ + file_size,
               !.to_transfer = Append(@, WorkItem(src, dest, file_size))]

\* TransferInfo.add
add(st, dt, src, dest) ==
    LET file_size == getsize(st.fs, dt, src) IN
    [st EXCEPT !.size = IF ~islink(st.fs, src) THEN @ + file_size ELSE @,
               !.to_transfer = Append(@, WorkItem(src, dest, file_size))]

\* TransferInfo._parse_file
parse_file(st, dt, source, dest) ==
    LET d == IF isdir(st.fs, dest) THEN join(dest, basename(source)) ELSE dest
    IN add(st, dt, source, d)

RECURSIVE parse(_, _, _, _, _)
RECURSIVE parse_dir(_, _, _, _, _)
RECURSIVE parse_files(_, _, _, _, _)
RECURSIVE parse_dirs(_, _, _, _, _, _)

\* for filename in filenames: self._parse_file(filename, destination)
parse_files(st, dt, names, dest, i) ==
    IF i > Len(names) THEN st
    ELSE parse_files(parse_file(st, dt, names[i], dest), dt, names, dest, i + 1)

\* for directory in directories: self._parse_dir(directory, destination)
parse_dirs(st, dt, all_files, dirs, dest, i) ==
    IF i > Len(dirs) THEN st
    ELSE parse_dirs(parse_dir(st, dt, all_files, dirs[i], dest),
                    dt, all_files, dirs, dest, i + 1)

\* TransferInfo.parse: both lists are computed before either loop runs
parse(st, dt, all_files, srcs, dest) ==
    LET IsF(x) == isfile(st.fs, x)
        IsD(x) == isdir(st.fs, x)
        filenames == SelectSeq(srcs, IsF)
        directories == SelectSeq(srcs, IsD)
        st1 == parse_files(st, dt, filenames, dest, 1)
    IN parse_dirs(st1, dt, all_files, directories, dest, 1)

\* _parse_dir recording the directory before it recurses into it
parse_dir_preorder(st, dt, all_files, source, dest) ==
    LET d == IF isdir(st.fs, dest) THEN join(dest, basename(source)) ELSE dest
        f1 == IF ~exists(st.fs, d) THEN mkdir(st.fs, d) ELSE st.fs
        listed == listdir(f1, source)
        Shown(n) == ~StartsWithDot(n)
        file_names == IF ~all_files THEN SelectSeq(listed, Shown) ELSE listed
        paths == [i \in 1..Len(file_names) |-> join(source, file_names[i])]
    IN parse([st EXCEPT !.fs = f1, !.to_remove = Append(@, source)],
             dt, all_files, paths, d)

\* TransferInfo._parse_dir
parse_dir(st, dt, all_files, source, dest) ==
    LET d == IF isdir(st.fs, dest) THEN join(dest, basename(source)) ELSE dest
        f1 == IF ~exists(st.fs, d) THEN mkdir(st.fs, d) ELSE st.fs
        listed == listdir(f1, source)
        Shown(n) == ~StartsWithDot(n)
        file_names == IF ~all_files THEN SelectSeq(listed, Shown) ELSE listed
        paths == [i \in 1..Len(file_names) |-> join(source, file_names[i])]
        st1 == [st EXCEPT !.fs = f1]
        st2 == parse(st1, dt, all_files, paths, d)
    IN [st2 EXCEPT !.to_remove = Append(@, source)]

\* TransferInfo.__init__
TransferInfo(f, dt, srcs, dest, all_files) ==
    parse([fs |-> f, to_transfer |-> <<>>, to_remove |-> <<>>, size |-> 0],
          dt, all_files, srcs, dest)

----------------------------------------------------------------------------
(* FileTransferManager: one transfer.  The environment's part of a         *)
(* transfer is a fault (an I/O operation it makes fail) and the answer     *)
(* typed at the overwrite prompt.  A transfer yields                       *)
(* [fs, data, exc, cbs, open, used]: the filesystem after it, the          *)
(* exception it raised, the arguments of its callback calls, the file      *)
(* objects it left open and whether the fault was hit.                     *)

NoFault == [kind |-> "none", at |-> 0]
Fault(k, n) == [kind |-> k, at |-> n]

\* the exceptions transfer_file can raise
TransferErrors == {"same_file", "open_src", "open_dest", "io"}
IsTransferError(e) == e \in TransferErrors

Outcome(f, dt, e, c, o, u) ==
    [fs |-> f, data |-> dt, exc |-> e, cbs |-> c, open |-> o, used |-> u]

\* os.remove(p); OSError when p is missing or a directory
CanRemove(f, p) == KindAt(f, LResolve(f, p)) \in {"file", "link", "fifo"}
remove(f, p) == Unlink(f, LResolve(f, p))

\* handle_symlink; a fault of kind "symlink" makes os.symlink fail
handle_symlink(f, dt, src, dest, fault) ==
    LET target == f[LResolve(f, src)].target
        rm == lexists(f, dest)
        f1 == IF rm /\ CanRemove(f, dest) THEN remove(f, dest) ELSE f
        dt1 == Collect(f1, dt)
        q == LResolve(f1, dest)
        f2 == [x \in DOMAIN f1 \cup {q} |->
                  IF x = q THEN LinkEntry(target) ELSE f1[x]]
    IN  IF rm /\ ~CanRemove(f, dest) THEN Outcome(f, dt, "OSError", <<>>, {}, FALSE)
        ELSE IF fault.kind = "symlink" THEN Outcome(f1, dt1, "OSError", <<>>, {}, TRUE)
        ELSE IF q = NoPath THEN Outcome(f1, dt1, "OSError", <<>>, {}, FALSE)
        ELSE Outcome(f2, dt1, "none", <<>>, {}, FALSE)

\* open(src, "rb") succeeds
CanOpenSrc(f, src, fault) == fault.kind # "open_src" /\ isfile(f, src)

\* open(dest, "wb") succeeds: dest is a regular file, or absent in a directory
CanOpenDest(f, dest, fault) ==
    /\ fault.kind # "open_dest"
    /\ Resolve(f, dest) # NoPath
    /\ KindAt(f, Resolve(f, dest)) \in {"file", "none"}

FreshIno(dt) == CHOOSE i \in 1..(Cardinality(DOMAIN dt) + 1) : i \notin DOMAIN dt

\* the effect of open(dest, "wb"): dest created, or truncated
OpenDest(f, dt, dest) ==
    LET q == Resolve(f, dest) IN
    IF KindAt(f, q) = "file"
    THEN [fs |-> f, data |-> [dt EXCEPT ![f[q].ino].content = <<>>]]
    ELSE LET i == FreshIno(dt) IN
         [fs |-> [x \in DOMAIN f \cup {q} |-> IF x = q THEN FileEntry(i) ELSE f[x]],
          data |-> [j \in DOMAIN dt \cup {i} |->
                      IF j = i THEN [content |-> <<>>, mode |-> "new"] ELSE dt[j]]]

\* open_files: "open_src", "open_dest" or "none", and the file objects that
\* exist when it returns or raises (src_file is not closed when the second
\* open fails)
open_files(f, src, dest, fault) ==
    IF ~CanOpenSrc(f, src, fault) THEN [exc |-> "open_src", open |-> {}]
    ELSE IF ~CanOpenDest(f, dest, fault) THEN [exc |-> "open_dest", open |-> {src}]
    ELSE [exc |-> "none", open |-> {src, dest}]

Min(a, b) == IF a < b THEN a ELSE b

\* number of non-empty reads of buff_size bytes a content gives
NChunks(c) == (Len(c) + BuffSize - 1) \div BuffSize
\* the k-th read
Chunk(c, k) == SubSeq(c, (k - 1) * BuffSize + 1, Min(k * BuffSize, Len(c)))
\* the bytes of the first k reads
Upto(c, k) == SubSeq(c, 1, Min(k * BuffSize, Len(c)))

\* the loop leaving before the last chunk is written
copy_loop_short(c, fault) ==
    [exc |-> "none", cbs |-> <<0>>, written |-> Upto(c, NChunks(c) - 1)]

\* the loop reporting a chunk only once it is written
copy_loop_write_first(c, fault) ==
    IF fault.kind = "read" /\ fault.at <= NChunks(c) + 1
    THEN [exc |-> "io",
          cbs |-> [j \in 1..(fault.at - 1) |-> Len(Chunk(c, j))],
          written |-> Upto(c, fault.at - 1)]
    ELSE IF fault.kind = "write" /\ fault.at <= NChunks(c)
    THEN [exc |-> "io",
          cbs |-> [j \in 1..(fault.at - 1) |-> Len(Chunk(c, j))],
          written |-> Upto(c, fault.at - 1)]
    ELSE [exc |-> "none",
          cbs |-> Append([j \in 1..NChunks(c) |-> Len(Chunk(c, j))], 0),
          written |-> c]

\* the read/callback/write loop of transfer_file on content c:
\* [exc, cbs, written]
copy_loop(c, fault) ==
    LET n == NChunks(c)
        lens(k) == [j \in 1..k |-> Len(Chunk(c, j))]
    IN  IF fault.kind = "read" /\ fault.at <= n + 1
        THEN [exc |-> "io", cbs |-> lens(fault.at - 1),
              written |-> Upto(c, fault.at - 1)]
        ELSE IF fault.kind = "write" /\ fault.at <= n
        THEN [exc |-> "io", cbs |-> lens(fault.at),
              written |-> Upto(c, fault.at - 1)]
        ELSE [exc |-> "none", cbs |-> Append(lens(n), 0), written |-> c]

\* the finally clause of transfer_file: the file objects still open after it
close_files(open) == {}

\* post_transfer with preserve = False: the permission bits of src on dest
post_transfer(f, dt, src, dest) ==
    [dt EXCEPT ![InoOf(f, dest)].mode = dt[InoOf(f, src)].mode]

\* transfer_file after the loop ended without error: the finally clause,
\* post_transfer (an OSError is a warning), then the removal of src (move)
finish_transfer(f, dt, o, src, dest, fault, cbs, open) ==
    LET moved == IF o.move /\ fault.kind # "rm_src" /\ CanRemove(f, src)
                 THEN remove(f, src) ELSE f
        dt1 == IF fault.kind = "finalize" THEN dt ELSE post_transfer(f, dt, src, dest)
    IN Outcome(moved, Collect(moved, dt1), "none", cbs, close_files(open),
               fault.kind = "finalize" \/ (o.move /\ fault.kind = "rm_src"))

\* transfer_file once both files are open: the loop and what follows it
stream_copy(f, dt, o, src, dest, fault, lp, open) ==
    IF lp.exc # "none"
    THEN Outcome(f, [dt EXCEPT ![InoOf(f, dest)].content = lp.written],
                 lp.exc, lp.cbs, close_files(open), TRUE)
    ELSE finish_transfer(f, [dt EXCEPT ![InoOf(f, dest)].content = lp.written],
                         o, src, dest, fault, lp.cbs, open)

\* transfer_file from open_files on; od is the filesystem once dest is open
open_and_copy(f, dt, od, o, src, dest, fault, op) ==
    IF op.exc # "none"
    THEN Outcome(f, dt, op.exc, <<>>, op.open,
                 \/ fault.kind = "open_src" /\ CanOpenSrc(f, src, NoFault)
                 \/ /\ fault.kind = "open_dest" /\ op.exc = "open_dest"
                    /\ CanOpenDest(f, dest, NoFault))
    ELSE stream_copy(od.fs, od.data, o, src, dest, fault,
                     copy_loop(od.data[InoOf(od.fs, src)].content, fault), op.open)

\* the symbolic link branch of transfer_file: callback(0) after the copy
link_copy(r) == IF r.exc = "none" THEN [r EXCEPT !.cbs = <<0>>] ELSE r

\* FileTransferManager.transfer_file
transfer_file(f, dt, o, src, dest, fault) ==
    IF check_same_file(f, src, dest)
    THEN Outcome(f, dt, "same_file", <<>>, {}, FALSE)
    ELSE IF islink(f, src)
    THEN link_copy(handle_symlink(f, dt, src, dest, fault))
    ELSE open_and_copy(f, dt, OpenDest(f, dt, dest), o, src, dest, fault,
                       open_files(f, src, dest, fault))

\* handle_overwrite with the safe test after the interactive one
handle_overwrite_unsafe(o, answer) ==
    IF ~o.interactive THEN FALSE
    ELSE IF o.safe THEN TRUE
    ELSE answer # "y"

\* FileTransferManager.handle_overwrite: TRUE when the file is to be skipped
handle_overwrite(o, answer) ==
    IF o.safe THEN TRUE
    ELSE IF ~o.interactive THEN FALSE
    ELSE answer # "y"

\* handle_overwrite reads the answer from standard input
Asks(f, o, dest) == exists(f, dest) /\ ~o.safe /\ o.interactive

Result(r, f, res) ==
    [fs |-> f, data |-> Collect(f, r.data), exc |-> r.exc, cbs |-> r.cbs,
     open |-> r.open, used |-> r.used, result |-> res]

\* the except clause tolerating the error whatever ignore_errors is
on_transfer_error_tolerant(r, o, dest) == Result(r, r.fs, "error")

\* the except clause removing dest whether or not the operation is a move
on_transfer_error_remove(r, o, dest) ==
    IF o.ignore_errors
    THEN Result(r, IF CanRemove(r.fs, dest) THEN remove(r.fs, dest) ELSE r.fs,
                "error")
    ELSE Result(r, r.fs, "raise")

\* the except clause of FileTransferManager.do_transfer; the result is
\* "error" (the error is returned) or "raise"
on_transfer_error(r, o, dest) ==
    IF o.ignore_errors
    THEN Result(r, IF ~o.move /\ CanRemove(r.fs, dest)
                   THEN remove(r.fs, dest) ELSE r.fs, "error")
    ELSE Result(r, r.fs, "raise")

\* the try statement of FileTransferManager.do_transfer around r, the
\* outcome of transfer_file
try_transfer(r, o, dest) ==
    IF IsTransferError(r.exc) THEN on_transfer_error(r, o, dest)
    ELSE Result(r, r.fs, IF r.exc = "none" THEN "ok" ELSE "raise")

\* FileTransferManager.do_transfer:
\* [fs, data, exc, cbs, open, used, result], result "skip", "ok", "error"
\* or "raise"
do_transfer(f, dt, o, src, dest, answer, fault) ==
    IF exists(f, dest) /\ handle_overwrite(o, answer)
    THEN [fs |-> f, data |-> dt, exc |-> "none", cbs |-> <<>>, open |-> {},
          used |-> FALSE, result |-> "skip"]
    ELSE try_transfer(transfer_file(f, dt, o, src, dest, fault), o, dest)

----
(* TransferManager: the orchestrator.                                      *)

\* os.rmdir(p) succeeds: p is a directory (not a link to one) and is empty
CanRmdir(f, p) ==
    LET q == LResolve(f, p) IN
    /\ q # <<>>
    /\ KindAt(f, q) = "dir"
    /\ \A x \in DOMAIN f : Front(x) # q

\* for to_remove in self.transfer_info.to_remove: os.rmdir(to_remove)
\* [fs, removed, exc]: the loop stops at the first OSError
RECURSIVE rmdir_all(_, _, _, _)
rmdir_all(f, dirs, i, done) ==
    IF i > Len(dirs) THEN [fs |-> f, removed |-> done, exc |-> "none"]
    ELSE IF ~CanRmdir(f, dirs[i]) THEN [fs |-> f, removed |-> done, exc |-> "OSError"]
    ELSE rmdir_all(Unlink(f, LResolve(f, dirs[i])), dirs, i + 1, Append(done, dirs[i]))

\* the condition of line 339
removes_dirs(o, errs) == o.move /\ ~o.ignore_errors

\* the faults that can hit the transfer of src: those of a link copy, or
\* those of a stream copy of the content of src
FaultsFor(f, dt, src) ==
    IF islink(f, src) THEN {NoFault, Fault("symlink", 0)}
    ELSE {NoFault}
         \cup {Fault(k, 0) : k \in {"open_src", "open_dest", "finalize", "rm_src"}}
         \cup {Fault(k, n) : k \in {"read", "write"},
                             n \in 1..(NChunks(Content(f, dt, src)) + 1)}

Answers == {"y", "n"}

\* the all_files value TransferManager.__init__ gives to TransferInfo: none,
\* so TransferInfo's default
plan_all_files(o) == FALSE

\* TransferManager.__init__
TransferManager_init ==
    /\ pc = "new"
    /\ LET ti == TransferInfo(fs, data, sources, destination, plan_all_files(opts)) IN
       /\ fs' = ti.fs
       /\ to_transfer' = ti.to_transfer
       /\ to_remove' = ti.to_remove
       /\ size' = ti.size
    /\ file_index' = 0
    /\ pc' = "transfer"
    /\ UNCHANGED <<data, opts, sources, destination, errors, raised, events,
                   handles, removed, faults, results, plan0>>

OnFileTransfer(cbs) == [j \in 1..Len(cbs) |-> <<"on_file_transfer", cbs[j]>>]

\* the loop body reporting on_file_done only for a transfer that was made
TransferStep_done_on_success(item, r, rec) ==
    /\ faults' = IF r.used THEN faults + 1 ELSE faults
    /\ file_index' = file_index + 1
    /\ fs' = r.fs
    /\ data' = r.data
    /\ handles' = handles \cup {<<file_index + 1, h>> : h \in r.open}
    /\ results' = Append(results, rec)
    /\ pc' = IF r.result = "raise" THEN "raised" ELSE pc
    /\ raised' = IF r.result = "raise" THEN r.exc ELSE raised
    /\ events' = Append(events, <<"on_new_file", item.src, item.dest,
                                  item.file_size>>)
                 \o OnFileTransfer(r.cbs)
                 \o (IF r.result = "ok" THEN << <<"on_file_done">> >> ELSE <<>>)
    /\ errors' = IF r.result = "error"
                 THEN [s \in DOMAIN errors \cup {item.src} |->
                         IF s = item.src THEN r.exc ELSE errors[s]]
                 ELSE errors

\* what the loop body of TransferManager.do_transfer does with r, the
\* outcome of ftm.do_transfer()
TransferStep(item, r, rec) ==
    /\ faults' = IF r.used THEN faults + 1 ELSE faults
    /\ file_index' = file_index + 1
    /\ fs' = r.fs
    /\ data' = r.data
    /\ handles' = handles \cup {<<file_index + 1, h>> : h \in r.open}
    /\ results' = Append(results, rec)
    /\ IF r.result = "raise"
       THEN /\ pc' = "raised"
            /\ raised' = r.exc
            /\ events' = Append(events, <<"on_new_file", item.src, item.dest,
                                          item.file_size>>)
                         \o OnFileTransfer(r.cbs)
            /\ errors' = errors
       ELSE /\ pc' = pc
            /\ raised' = raised
            /\ events' = Append(Append(events, <<"on_new_file", item.src,
                                                 item.dest, item.file_size>>)
                                \o OnFileTransfer(r.cbs),
                                <<"on_file_done">>)
            /\ errors' = IF r.result = "error"
                         THEN [s \in DOMAIN errors \cup {item.src} |->
                                 IF s = item.src THEN r.exc ELSE errors[s]]
                         ELSE errors

\* the record kept of one transfer
Record(item, r, asked, answer, fault) ==
    [src |-> item.src, dest |-> item.dest,
     existed |-> exists(fs, item.dest),
     same |-> samefile(fs, item.src, item.dest),
     link |-> islink(fs, item.src),
     answer |-> IF asked THEN answer ELSE "",
     fault |-> fault, result |-> r.result, exc |-> r.exc,
     cbs |-> r.cbs, open |-> r.open]

TransferWith(item, r, asked, answer, fault) ==
    /\ asked \/ answer = "n"
    /\ r.used \/ fault = NoFault
    /\ TransferStep(item, r, Record(item, r, asked, answer, fault))

\* one iteration of the loop of TransferManager.do_transfer
Transfer ==
    /\ pc = "transfer"
    /\ file_index < Len(to_transfer)
    /\ \E answer \in Answers,
          fault \in FaultsFor(fs, data, to_transfer[file_index + 1].src) :
         /\ fault = NoFault \/ faults < MaxFaults
         /\ TransferWith(to_transfer[file_index + 1],
                         do_transfer(fs, data, opts,
                                     to_transfer[file_index + 1].src,
                                     to_transfer[file_index + 1].dest,
                                     answer, fault),
                         Asks(fs, opts, to_transfer[file_index + 1].dest),
                         answer, fault)
    /\ UNCHANGED <<opts, sources, destination, to_transfer, to_remove, size,
                   removed, plan0>>

\* the end of TransferManager.do_transfer: the source directories of a move
Cleanup ==
    /\ pc = "transfer"
    /\ file_index = Len(to_transfer)
    /\ IF removes_dirs(opts, errors)
       THEN LET r == rmdir_all(fs, to_remove, 1, <<>>) IN
            /\ fs' = r.fs
            /\ removed' = r.removed
            /\ pc' = IF r.exc = "none" THEN "done" ELSE "raised"
            /\ raised' = r.exc
       ELSE /\ pc' = "done"
            /\ UNCHANGED <<fs, removed, raised>>
    /\ UNCHANGED <<data, opts, sources, destination, to_transfer, to_remove,
                   size, file_index, errors, events, handles, faults, results,
                   plan0>>

----------------------------------------------------------------------------
(* The filesystems and the command lines a run starts from.                *)

F == <<"f">>
D == <<"d">>
M == <<"m">>
P == <<"p">>
OUT == <<"out">>

File(c, m) == [content |-> c, mode |-> m]

\* the inodes of every layout
AllData ==
    <<File(<<1, 2, 3>>, "rw"), File(<<4>>, "r"), File(<<>>, "rw"),
      File(<<5>>, "rw"), File(<<9>>, "rwx"), File(<<8, 9>>, "rwx")>>

\* f, d/a, d/s/b and the special file p always exist; m never does
BaseTree ==
    (F :> FileEntry(1)) @@ (D :> DirEntry) @@ (<<"d", "a">> :> FileEntry(2))
    @@ (<<"d", "s">> :> DirEntry) @@ (<<"d", "s", "b">> :> FileEntry(3))
    @@ (P :> FifoEntry) @@ (OUT :> DirEntry)

TreeKinds == {"plain", "hidden", "link_file", "link_dir", "dangling"}

\* what d/ holds besides a and s/b: nothing; the hidden file d/.h; or d/l,
\* a link to the file d/a, to the directory d/s, or to nothing
SourceTree(tree) ==
    CASE tree = "hidden" -> (<<"d", ".h">> :> FileEntry(4))
      [] tree = "link_file" -> (<<"d", "l">> :> LinkEntry(<<"d", "a">>))
      [] tree = "link_dir" -> (<<"d", "l">> :> LinkEntry(<<"d", "s">>))
      [] tree = "dangling" -> (<<"d", "l">> :> LinkEntry(M))
      [] OTHER -> <<>>

DestKinds == {"empty", "files", "alias"}

\* what out/ holds beforehand: nothing; other files (and a directory where
\* d/l would go); or aliases of the sources, a hardlink and a symbolic link
DestTree(pre) ==
    CASE pre = "files" ->
           (<<"out", "f">> :> FileEntry(5)) @@ (<<"out", "d">> :> DirEntry)
           @@ (<<"out", "d", "a">> :> FileEntry(6))
           @@ (<<"out", "d", "l">> :> DirEntry)
      [] pre = "alias" ->
           (<<"out", "f">> :> FileEntry(1)) @@ (<<"out", "d">> :> DirEntry)
           @@ (<<"out", "d", "a">> :> LinkEntry(<<"d", "a">>))
      [] OTHER -> <<>>

Layout(tree, pre) == BaseTree @@ SourceTree(tree) @@ DestTree(pre)

SourceLists == {<<D, F>>, <<M, D>>, <<P, F>>}

Options == [move : BOOLEAN, ignore_errors : BOOLEAN, safe : BOOLEAN,
            interactive : BOOLEAN, all_files : BOOLEAN]

Init ==
    /\ \E tree \in TreeKinds, pre \in DestKinds :
         /\ fs = Layout(tree, pre)
         /\ data = Collect(fs, AllData)
    /\ opts \in Options
    /\ sources \in SourceLists
    /\ destination \in {OUT, <<>>}
    /\ destination = <<>> => \A x \in DOMAIN fs : x = OUT \/ ~IsPrefix(OUT, x)
    /\ to_transfer = <<>>
    /\ to_remove = <<>>
    /\ size = 0
    /\ file_index = 0
    /\ errors = <<>>
    /\ pc = "new"
    /\ raised = "none"
    /\ events = <<>>
    /\ handles = {}
    /\ removed = <<>>
    /\ faults = 0
    /\ results = <<>>
    /\ plan0 = [fs |-> fs, data |-> data]

Next == TransferManager_init \/ Transfer \/ Cleanup

Spec == Init /\ [][Next]_vars

----------------------------------------------------------------------------
(* Vocabulary of the properties.                                           *)

Range(q) == {q[i] : i \in DOMAIN q}

Item(i) == to_transfer[i]

\* the transfer of item i was started and raised a TransferError
Failed(i) == IsTransferError(results[i].exc)

\* the overwrite check of item i chose to skip
SkipChosen(i) ==
    opts.safe \/ (opts.interactive /\ results[i].answer # "y")

\* the destination of item i holds what its source held when the plan was
\* made: the same bytes, or for a symbolic link a link to the same target
DestHolds(i) ==
    IF results[i].link
    THEN /\ islink(fs, Item(i).dest)
         /\ fs[LResolve(fs, Item(i).dest)].target
              = plan0.fs[LResolve(plan0.fs, Item(i).src)].target
    ELSE /\ isfile(fs, Item(i).dest)
         /\ Content(fs, data, Item(i).dest)
              = Content(plan0.fs, plan0.data, Item(i).src)

\* every directory that existed when the plan was made is still there
DirsIntact ==
    \A p \in DOMAIN plan0.fs :
        plan0.fs[p].kind = "dir" => KindAt(fs, p) = "dir"

NewFileEvents == {i \in DOMAIN events : events[i][1] = "on_new_file"}

----------------------------------------------------------------------------
(* C1: with safe set, the transfer of an item whose destination exists     *)
(* (os.path.exists) is a skip whatever interactive, move and               *)
(* ignore_errors are: the filesystem is left as it was (destination bytes  *)
(* unchanged, source still there), the callback is not called, no error    *)
(* is returned, nothing is raised and no file is opened.                   *)
C1_SafeSkipsExisting ==
    [][(/\ pc = "transfer"
        /\ file_index < Len(to_transfer)
        /\ opts.safe
        /\ exists(fs, to_transfer[file_index + 1].dest))
       => (/\ fs' = fs
           /\ data' = data
           /\ pc' = "transfer"
           /\ raised' = "none"
           /\ errors' = errors
           /\ handles' = handles
           /\ results'[file_index + 1].result = "skip"
           /\ results'[file_index + 1].cbs = <<>>
           /\ events' = events \o <<<<"on_new_file",
                                      to_transfer[file_index + 1].src,
                                      to_transfer[file_index + 1].dest,
                                      to_transfer[file_index + 1].file_size>>,
                                    <<"on_file_done">>>>)]_vars

C1_Witness ==
    /\ opts.safe /\ opts.move /\ opts.ignore_errors /\ ~opts.interactive
    /\ Len(results) > 0
    /\ results[1].existed
    /\ results[1].result = "skip"
    /\ ~results[1].same

C3_AllOthersTransferred ==
    (opts.ignore_errors /\ pc = "done") =>
        /\ Len(results) = Len(to_transfer)
        /\ \A i \in DOMAIN results : ~Failed(i) => DestHolds(i)
        /\ DOMAIN errors = {Item(i).src : i \in {j \in DOMAIN results : Failed(j)}}

(* C3, amended: with ignore_errors no TransferError leaves                 *)
(* TransferManager.do_transfer, and when it returns all items were         *)
(* processed, every item that neither failed nor was skipped by the        *)
(* overwrite check has its source's bytes at its destination (a link to    *)
(* the same target, for a symbolic link), and the keys of the returned     *)
(* mapping are the sources of the items that raised a TransferError.       *)
C3_OthersTransferredUnlessSkipped ==
    opts.ignore_errors =>
        /\ ~(pc = "raised" /\ IsTransferError(raised))
        /\ pc = "done" =>
             /\ Len(results) = Len(to_transfer)
             /\ \A i \in DOMAIN results :
                    (~Failed(i) /\ results[i].result # "skip") => DestHolds(i)
             /\ DOMAIN errors
                  = {Item(i).src : i \in {j \in DOMAIN results : Failed(j)}}

C3_Witness ==
    /\ opts.ignore_errors /\ pc = "done"
    /\ Len(results) = 3
    /\ results[1].exc = "none" /\ results[1].result = "ok"
    /\ results[2].exc = "io" /\ results[2].fault.kind = "write"
    /\ results[3].exc = "none" /\ results[3].result = "ok"
    /\ DOMAIN errors = {Item(2).src}

(* C4: without ignore_errors, a TransferError on an item of a move leaves  *)
(* TransferManager.do_transfer at once: it is the last item started, no    *)
(* on_file_done follows it, nothing can run after it, no directory of the  *)
(* removal list was removed and every source directory still exists.       *)
C4_ErrorAbortsMove ==
    (opts.move /\ ~opts.ignore_errors) =>
        \A i \in DOMAIN results :
            Failed(i) =>
                /\ i = Len(results)
                /\ results[i].result = "raise"
                /\ pc = "raised" /\ raised = results[i].exc
                /\ file_index = i
                /\ Cardinality(NewFileEvents) = i
                /\ events[Len(events)][1] # "on_file_done"
                /\ removed = <<>>
                /\ DirsIntact
                /\ ~ENABLED Next

C4_Witness ==
    /\ opts.move /\ ~opts.ignore_errors
    /\ pc = "raised" /\ raised = "io"
    /\ Len(results) = 2 /\ Len(to_transfer) = 3
    /\ Len(to_remove) = 2

(* C5 as stated: when all items are processed, the directories of the      *)
(* removal list are removed iff the operation is a move and the returned   *)
(* mapping is empty, for both values of ignore_errors.                     *)
C5_RemovesIffMoveWithoutErrors ==
    (pc = "done" /\ to_remove # <<>>) =>
        (removed = to_remove <=> (opts.move /\ DOMAIN errors = {}))

(* Vocabulary of the planning properties.                                  *)

\* the state TransferManager.__init__ leaves
Planned == pc = "transfer" /\ file_index = 0

ItemSrcs == {Item(i).src : i \in DOMAIN to_transfer}

\* the directories among the sources
SourceDirs == {d \in Range(sources) : KindAt(plan0.fs, d) = "dir"}

\* the entries of the tree under d, when the plan was made
Under(d) == {p \in DOMAIN plan0.fs : IsPrefix(d, p) /\ p # d}

\* p, under d, passes the hidden-file filter
Visible(d, p, all_files) ==
    all_files \/ \A k \in (Len(d) + 1)..Len(p) : ~StartsWithDot(p[k])

\* where the planner sends the entry p of a source tree
DestOf(p) == destination \o p

\* the sources that are missing or of no supported type
BadSources ==
    {x \in Range(sources) :
        KindAt(plan0.fs, LResolve(plan0.fs, x)) \notin {"file", "dir", "link"}}

\* the children of directory p that pass the hidden-file filter
Children(p, all_files) ==
    {join(p, n) : n \in {m \in Range(listdir(plan0.fs, p)) :
                            all_files \/ ~StartsWithDot(m)}}

\* the directories, and links to one, reached from those of S
RECURSIVE Recursed(_, _)
Recursed(S, all_files) ==
    LET kids == {q \in UNION {Children(p, all_files) : p \in S} :
                    isdir(plan0.fs, q)}
    IN IF kids \subseteq S THEN S ELSE Recursed(S \cup kids, all_files)

----------------------------------------------------------------------------
(* C6 as stated: for a source directory, the plan holds exactly one work   *)
(* item per regular file and per symbolic link under it that passes the    *)
(* planner's hidden-file filter, and every subdirectory that passes it     *)
(* has its destination directory.                                          *)
C6_OneItemPerFileOrLink ==
    Planned =>
        \A d \in SourceDirs :
            /\ {x \in ItemSrcs : IsPrefix(d, x)}
                 = {p \in Under(d) :
                       /\ plan0.fs[p].kind \in {"file", "link"}
                       /\ Visible(d, p, plan_all_files(opts))}
            /\ \A i, j \in DOMAIN to_transfer :
                   Item(i).src = Item(j).src => i = j
            /\ \A p \in Under(d) :
                   (plan0.fs[p].kind = "dir" /\ Visible(d, p, plan_all_files(opts)))
                       => isdir(fs, DestOf(p))

(* C7 as stated: a child of a recursed directory whose name starts with    *)
(* "." is in the work list iff the all_files option of TransferManager is  *)
(* set.                                                                    *)
C7_AllFilesControlsFilter ==
    Planned =>
        \A d \in SourceDirs :
            \A p \in Under(d) :
                (plan0.fs[p].kind = "file" /\ StartsWithDot(Last(p)))
                    => (p \in ItemSrcs <=> opts.all_files)

(* C8 as stated: when a source is missing or is no regular file,           *)
(* directory or symbolic link, planning fails: no plan is made and no      *)
(* transfer is started.                                                    *)
C8_BadSourceFailsPlanning ==
    BadSources # {} => (pc = "new" /\ to_transfer = <<>> /\ results = <<>>)

(* C9 as stated: whenever control is back in the orchestrator, every file  *)
(* object opened by the transfers made so far is closed.                   *)
C9_NoHandleLeftOpen == handles = {}

(* C10: the removal list holds exactly the source directories recursed     *)
(* into, each once, no directory before one of its descendants; the        *)
(* directories are removed in the order of the list, and only once every   *)
(* work item has been processed.                                           *)
C10_RemovalListPostOrder ==
    pc # "new" =>
        /\ Range(to_remove) = Recursed(SourceDirs, plan_all_files(opts))
        /\ \A i, j \in DOMAIN to_remove :
               /\ to_remove[i] = to_remove[j] => i = j
               /\ (i < j) => ~IsPrefix(to_remove[i], to_remove[j])
        /\ Len(removed) <= Len(to_remove)
        /\ removed = SubSeq(to_remove, 1, Len(removed))
        /\ removed # <<>> =>
               /\ file_index = Len(to_transfer)
               /\ Len(results) = Len(to_transfer)
               /\ \A p \in Range(removed) : KindAt(fs, p) = "none"

C10_Witness ==
    /\ pc = "done"
    /\ to_remove = <<<<"d", "s">>, D>>
    /\ removed = to_remove
    /\ Len(results) = 3

----------------------------------------------------------------------------
\* the sizes recorded in the first i work items, a symbolic link counting 0
RECURSIVE SumSizes(_)
SumSizes(i) ==
    IF i = 0 THEN 0
    ELSE SumSizes(i - 1)
         + (IF islink(plan0.fs, Item(i).src) THEN 0 ELSE Item(i).file_size)

(* C11: once the plan is made, its total size is the sum of the sizes      *)
(* recorded in its work items, the items whose source is a symbolic link   *)
(* counting 0.                                                             *)
C11_SizeIsSumOfItems ==
    pc # "new" => size = SumSizes(Len(to_transfer))

C11_Witness ==
    /\ Planned
    /\ size > 0
    /\ \E i \in DOMAIN to_transfer :
           islink(plan0.fs, Item(i).src) /\ Item(i).file_size > 0

\* the step is the transfer of the next item
TransferOf(i) == pc = "transfer" /\ file_index + 1 = i /\ file_index' = i

(* C12: a tolerated TransferError is returned (recorded under the source,  *)
(* nothing raised, the loop goes on); after it the destination is gone     *)
(* when the operation is a copy, unless it is a directory os.remove        *)
(* cannot remove, and in a move whatever the transfer left at the          *)
(* destination is still there.                                             *)
C12_ToleratedErrorRemovesDestOfCopy ==
    [][\A i \in DOMAIN to_transfer :
         (TransferOf(i) /\ results'[i].result = "error") =>
            /\ opts.ignore_errors
            /\ IsTransferError(results'[i].exc)
            /\ pc' = "transfer" /\ raised' = "none"
            /\ Item(i).src \in DOMAIN errors'
            /\ errors'[Item(i).src] = results'[i].exc
            /\ IF ~opts.move
               THEN KindAt(fs', LResolve(fs', Item(i).dest)) \in {"none", "dir"}
               ELSE /\ lexists(fs, Item(i).dest) => lexists(fs', Item(i).dest)
                    /\ results'[i].exc = "io" => isfile(fs', Item(i).dest)]_vars

C12_Witness ==
    /\ pc = "transfer" /\ opts.ignore_errors /\ ~opts.move
    /\ Len(results) = 1
    /\ results[1].result = "error" /\ results[1].exc = "io"
    /\ results[1].fault.at > 1
    /\ ~lexists(fs, results[1].dest)

(* C13: in a move the source of a regular file is removed only by an item  *)
(* whose stream copy and finalization both succeeded, and a failure to     *)
(* remove the source leaves the item successful.                           *)
C13_SourceKeptUnlessFinalized ==
    [][\A i \in DOMAIN to_transfer :
         (TransferOf(i) /\ opts.move /\ ~results'[i].link) =>
            /\ (lexists(fs, Item(i).src) /\ ~lexists(fs', Item(i).src)) =>
                   /\ results'[i].exc = "none"
                   /\ results'[i].fault.kind # "finalize"
            /\ (results'[i].fault.kind = "rm_src" /\ results'[i].exc = "none"
                /\ results'[i].result # "skip") =>
                   results'[i].result = "ok" /\ lexists(fs', Item(i).src)]_vars

RECURSIVE SumSeq(_)
SumSeq(s) == IF s = <<>> THEN 0 ELSE s[1] + SumSeq(Tail(s))

\* the lengths item i's stream copy reported, c being the source's content
\* before the step and w the destination's content after it
ChunksReported(r, c, w) ==
    /\ \A j \in DOMAIN r.cbs : r.cbs[j] = 0 => j = Len(r.cbs)
    /\ \A j \in DOMAIN r.cbs : r.cbs[j] # 0 => r.cbs[j] = Len(Chunk(c, j))
    /\ r.exc = "none" =>
          /\ Last(r.cbs) = 0
          /\ w = c
          /\ SumSeq(r.cbs) = Len(w)
          /\ SumSeq(r.cbs) = Len(c)
    /\ (r.exc = "io" /\ r.fault.kind = "read") =>
          /\ 0 \notin Range(r.cbs)
          /\ r.result = "raise" \/ opts.move => SumSeq(r.cbs) = Len(w)
    /\ (r.exc = "io" /\ r.fault.kind = "write") =>
          /\ Len(r.cbs) = r.fault.at
          /\ 0 \notin Range(r.cbs)
          /\ r.result = "raise" \/ opts.move =>
                SumSeq(r.cbs) = Len(w) + Len(Chunk(c, r.fault.at))

IsNewFile(e) == e[1] = "on_new_file"

(* C15: when TransferManager.do_transfer has returned, the events are, for *)
(* each work item in plan order, one on_new_file(source, destination,      *)
(* size), then on_file_transfer events only, then one on_file_done, the    *)
(* events of an item ending before those of the next begin; skipped and    *)
(* tolerated items included.                                               *)
C15_EventsBracketEachItem ==
    pc = "done" =>
       /\ SelectSeq(events, IsNewFile)
            = [i \in DOMAIN to_transfer |->
                 <<"on_new_file", Item(i).src, Item(i).dest, Item(i).file_size>>]
       /\ events # <<>> =>
             /\ events[1][1] = "on_new_file"
             /\ Last(events)[1] = "on_file_done"
       /\ \A j \in 1..(Len(events) - 1) :
             events[j][1] = "on_file_done" <=> events[j + 1][1] = "on_new_file"
       /\ \A j \in DOMAIN events :
             events[j][1] \in {"on_new_file", "on_file_transfer", "on_file_done"}

C15_Witness ==
    /\ pc = "done"
    /\ \E i, j, k \in DOMAIN results :
          /\ results[i].result = "skip"
          /\ results[j].result = "error"
          /\ results[k].result = "ok" /\ Len(results[k].cbs) >= 2

\* the symbolic links to a directory that planning meets: a source or an
\* entry below a source
DirLinks ==
    {p \in DOMAIN plan0.fs :
        /\ islink(plan0.fs, p) /\ isdir(plan0.fs, p)
        /\ \E s \in Range(sources) : IsPrefix(s, p)}

(* C16: a symbolic link to a directory met by the planner yields exactly   *)
(* one work item, whose source is the link; no work item has a source      *)
(* below the link, no directory is created at the link's destination and   *)
(* the link is not in the removal list.                                    *)
C16_DirLinkPlannedAsLink ==
    Planned =>
       \A p \in DirLinks :
          /\ \E i \in DOMAIN to_transfer :
                /\ Item(i).src = p
                /\ \A j \in DOMAIN to_transfer : Item(j).src = p => j = i
          /\ \A i \in DOMAIN to_transfer :
                ~(IsPrefix(p, Item(i).src) /\ Item(i).src # p)
          /\ isdir(fs, DestOf(p)) => isdir(plan0.fs, DestOf(p))
          /\ p \notin Range(to_remove)

\* every item was transferred without an exception leaving the loop, so
\* the statements after the loop have run
LoopCompleted ==
    /\ pc \in {"done", "raised"}
    /\ file_index = Len(to_transfer)
    /\ \A i \in DOMAIN results : results[i].result # "raise"

(* C17: in a run where no operation was made to fail, the removal of the   *)
(* directories after a move finds each directory of the removal list       *)
(* empty: it removes them all and raises nothing.                          *)
C17_RemovalFindsDirsEmpty ==
    (faults = 0 /\ LoopCompleted /\ removes_dirs(opts, errors)) =>
       pc = "done" /\ removed = to_remove

(* C18: in a copy no transfer, whatever its outcome and whatever safe,     *)
(* interactive and ignore_errors are, removes or alters its source: the    *)
(* source entry is of the same kind after the transfer as before it and    *)
(* holds the same bytes.                                                   *)
C18_CopyKeepsSource ==
    [][\A i \in DOMAIN to_transfer :
         (TransferOf(i) /\ ~opts.move) =>
            /\ KindAt(fs', LResolve(fs', Item(i).src))
                 = KindAt(fs, LResolve(fs, Item(i).src))
            /\ Content(fs', data', Item(i).src)
                 = Content(fs, data, Item(i).src)]_vars

\* after the step the destination of item i holds what its source held
DestHoldsSource(i) ==
    IF results'[i].link
    THEN /\ islink(fs', Item(i).dest)
         /\ fs'[LResolve(fs', Item(i).dest)].target
              = fs[LResolve(fs, Item(i).src)].target
    ELSE /\ isfile(fs', Item(i).dest)
         /\ Content(fs', data', Item(i).dest) = Content(fs, data, Item(i).src)

(* C19: in a move, a transfer of a regular file or of a symbolic link that *)
(* ends without error and without skip, the removal of the source not      *)
(* failing, leaves no entry at the source path and leaves the transferred  *)
(* entry at the destination.                                               *)
C19_MoveLeavesNoSource ==
    [][\A i \in DOMAIN to_transfer :
         (/\ TransferOf(i) /\ opts.move
          /\ results'[i].result = "ok"
          /\ results'[i].fault.kind # "rm_src") =>
            /\ ~lexists(fs', Item(i).src)
            /\ DestHoldsSource(i)]_vars

(* C20: with ignore_errors set, no failure inside the transfer of an item  *)
(* leaves FileTransferManager.do_transfer as an exception: the failure is  *)
(* recorded as the error of the item's source and the run is not ended by  *)
(* it.                                                                     *)
C20_IgnoreErrorsToleratesAll ==
    opts.ignore_errors =>
       /\ pc # "raised"
       /\ \A i \in DOMAIN results :
             /\ results[i].result # "raise"
             /\ results[i].exc # "none" =>
                   /\ results[i].src \in DOMAIN errors
                   /\ errors[results[i].src] = results[i].exc

====
